---- MODULE Spec2Model ----
(***************************************************************************)
(* Bank-feed synchronisation of finance-splitter-v2 (backend/*.py):        *)
(* paginated fetch from the PocketSmith API, field mapping, the shared     *)
(* account's categorize/label step and the conditional upsert into the     *)
(* per-account table.                                                      *)
(*                                                                         *)
(* Every column value is a string; NULL stands for SQL NULL / Python None. *)
(* Column nullability follows the field tables of ACCOUNT_CONFIGS: id,     *)
(* date, description, amount and has_split carry no 'nullable' flag and    *)
(* are never NULL, neither in a stored row nor in an API record.           *)
(***************************************************************************)
EXTENDS Integers, Sequences, FiniteSets, TLC

VARIABLES
    account,          \* which feed this behaviour runs: "shared", "personal", "offset"
    table,            \* the account table the upsert writes: id -> row or NoRow
    generalized,      \* shared_transactions_generalized, read by the shared categorize step
    lastFetched,      \* history: what fetch_transactions returned in the last run
    existing_data,    \* history: what the last run's categorize step read
    lastTx,           \* history: the records the last run handed to insert_transactions
    fired,            \* history: ids whose ON CONFLICT update passed its WHERE guard in the last run
    inserted,         \* history: ids the last run inserted a row for
    lastAct,          \* history: kind of the last step
    repeat,           \* history: the last two steps were runs with the same fetched batch
    remote,           \* fetch: the page responses the API will give, page 1 first
    page,             \* fetch: the loop's page counter
    all_transactions, \* fetch: the loop's accumulator
    requested,        \* fetch: page numbers requested so far
    fstate,           \* fetch: "loop", "returned" or "raised"
    calls,            \* pure functions: the last two calls, each with its argument and result
    db,               \* statements: the committed rows of the account table
    db0,              \* statements, history: the rows before any run started
    runs              \* statements: each run's position, batch, uncommitted writes and row locks

vars == <<account, table, generalized, lastFetched, existing_data, lastTx,
          fired, inserted, lastAct, repeat, remote, page, all_transactions, requested, fstate,
          calls, db, db0, runs>>

recVars == <<table, generalized, lastFetched, existing_data, lastTx, fired,
             inserted, lastAct, repeat>>

fetchVars == <<remote, page, all_transactions, requested, fstate>>

pureVars == <<calls>>

dbVars == <<db, db0, runs>>

-----------------------------------------------------------------------------
(* Values *)

NULL == "<null>"
NoRow == [absent |-> TRUE]
SqlTrue == "true"
SqlFalse == "false"

Accounts == {"shared", "personal", "offset"}
Ids == {"t1"}
Dates == {"2024-01-01", "2024-01-02"}
Payees == {"Shell", "BP"}
Amounts == {"-10.00", "-4.00"}
ApiAmounts == {"-10.00"}
CategoryTitles == {"Fuel", "Dining"}
Balances == {"100.00", "200.00"}
ParentIds == {"p0"}
PEOPLE == <<"Alice", "Bob">>

\* What the API can return for one transaction.  "category" is the title of
\* the optional category object (NULL: no category), "closing_balance" is NULL
\* when the key is missing.  The shared feed never reads closing_balance and
\* the personal and offset feeds never read category, so each feed's inputs
\* vary only the keys it reads.  The bank reports one amount per transaction;
\* a stored amount differs from it after a user has edited it (Amounts).
RawTransactions(acct) ==
    IF acct = "shared"
    THEN [id : Ids, date : Dates, payee : Payees, amount : ApiAmounts,
          category : CategoryTitles \cup {NULL}, closing_balance : {NULL}]
    ELSE [id : Ids, date : Dates, payee : Payees, amount : ApiAmounts,
          category : {NULL}, closing_balance : Balances \cup {NULL}]

-----------------------------------------------------------------------------
(* SQL expressions *)

\* a != b : NULL (unknown) as soon as one side is NULL
SqlNe(a, b) ==
    IF a = NULL \/ b = NULL THEN NULL
    ELSE IF a # b THEN SqlTrue ELSE SqlFalse

\* a IS DISTINCT FROM b : never NULL
IsDistinctFrom(a, b) == IF a # b THEN SqlTrue ELSE SqlFalse

\* c1 OR c2 OR ... over a set of three-valued results
SqlOr(conds) ==
    IF SqlTrue \in conds THEN SqlTrue
    ELSE IF NULL \in conds THEN NULL ELSE SqlFalse

COALESCE(a, b) == IF a # NULL THEN a ELSE b

NULLIF(a, b) == IF a # NULL /\ b # NULL /\ a = b THEN NULL ELSE a

-----------------------------------------------------------------------------
(* Field tables of the configuration-driven feeds (base_bank_feed.py) *)

Range(s) == {s[k] : k \in 1..Len(s)}

ACCOUNT_CONFIGS ==
    [shared |->
        [transaction_fields |-> <<"id", "date", "description", "amount",
                                  "bank_category", "label", "has_split", "split_from_id">>,
         defaults |-> [has_split |-> SqlFalse, split_from_id |-> NULL],
         api_update_fields |-> <<"date", "description">>,
         preserve_fields |-> <<"amount", "bank_category", "label", "has_split",
                               "split_from_id">>],
     personal |->
        [transaction_fields |-> <<"id", "date", "description", "amount", "category",
                                  "closing_balance", "has_split", "split_from_id">>,
         defaults |-> [category |-> NULL, has_split |-> SqlFalse, split_from_id |-> NULL],
         api_update_fields |-> <<"date", "description", "closing_balance">>,
         preserve_fields |-> <<"amount", "category", "has_split", "split_from_id">>],
     offset |->
        [transaction_fields |-> <<"id", "date", "description", "amount", "category",
                                  "label", "closing_balance", "has_split", "split_from_id">>,
         defaults |-> [category |-> NULL, label |-> NULL, has_split |-> SqlFalse,
                       split_from_id |-> NULL],
         api_update_fields |-> <<"date", "description", "closing_balance">>,
         preserve_fields |-> <<"amount", "category", "label", "has_split",
                               "split_from_id">>]]

\* example_new_bank_feed.py: the field table of the savings feed
SAVINGS_CONFIG ==
    [transaction_fields |-> <<"id", "date", "description", "amount", "closing_balance",
                              "transaction_type", "interest_rate", "has_split",
                              "split_from_id">>,
     defaults |-> [has_split |-> SqlFalse, split_from_id |-> NULL],
     api_update_fields |-> <<"date", "description", "closing_balance">>,
     preserve_fields |-> <<"amount", "transaction_type", "interest_rate", "has_split",
                           "split_from_id">>]

ConfigNames == {"shared", "personal", "offset", "savings"}

\* the configuration a feed is constructed with
ConfigOf(name) ==
    CASE name = "shared" -> ACCOUNT_CONFIGS.shared
      [] name = "personal" -> ACCOUNT_CONFIGS.personal
      [] name = "offset" -> ACCOUNT_CONFIGS.offset
      [] OTHER -> SAVINGS_CONFIG

\* The columns each feed's INSERT names.
Columns(acct) ==
    CASE acct = "shared" ->
            {"id", "date", "description", "amount", "bank_category", "label",
             "has_split", "split_from_id"}
      [] acct = "personal" ->
            {"id", "date", "description", "amount", "category", "closing_balance",
             "has_split", "split_from_id"}
      [] OTHER -> Range(ACCOUNT_CONFIGS.offset.transaction_fields)

-----------------------------------------------------------------------------
(* Field mappers *)

\* shared_bank_feed.fetch_transactions, the loop body over one page's records
shared_parse(tx) ==
    [id |-> tx.id,
     date |-> tx.date,
     description |-> tx.payee,
     bank_category |-> IF tx.category # NULL THEN tx.category ELSE "",
     amount |-> tx.amount]

\* personal_bank_feed.fetch_transactions, the loop body over one page's records
personal_parse(tx) ==
    [id |-> tx.id,
     date |-> tx.date,
     description |-> tx.payee,
     amount |-> tx.amount,
     closing_balance |-> tx.closing_balance]

\* OffsetBankFeed.process_transaction
process_transaction(tx) ==
    [id |-> tx.id,
     date |-> tx.date,
     description |-> tx.payee,
     amount |-> tx.amount,
     closing_balance |-> tx.closing_balance,
     category |-> NULL,
     label |-> NULL,
     has_split |-> SqlFalse,
     split_from_id |-> NULL]

MapTransaction(acct, tx) ==
    CASE acct = "shared" -> shared_parse(tx)
      [] acct = "personal" -> personal_parse(tx)
      [] OTHER -> process_transaction(tx)

-----------------------------------------------------------------------------
(* Shared account: labels *)

no_label_categories == {"Dining", "Transfers"}
first_person_categories == {"Personal Items", "Personal Care", "Hobbies",
                            "Entertainment/Recreation", "Vehicle", "Gym", "Fuel"}

\* Python truthiness of an optional string
Falsy(s) == s = NULL \/ s = ""

\* auto_label_bank_category that tests the first-person list before the
\* no-label list, with "Dining" moved to the first-person list
auto_label_first_person_first(bank_category) ==
    IF Falsy(bank_category) THEN NULL
    ELSE IF bank_category \in first_person_categories \cup {"Dining"} THEN PEOPLE[1]
    ELSE IF bank_category \in no_label_categories THEN NULL
    ELSE "Both"

auto_label_bank_category(bank_category) ==
    IF Falsy(bank_category) \/ bank_category \in no_label_categories THEN NULL
    ELSE IF bank_category \in first_person_categories THEN PEOPLE[1]
    ELSE "Both"

\* bank_feeds_psql.auto_label_bank_category: the earlier script's table
psql_no_label_categories == {"Dining", "Travel"}

psql_auto_label_bank_category(bank_category) ==
    IF Falsy(bank_category) \/ bank_category \in psql_no_label_categories THEN NULL
    ELSE IF bank_category \in first_person_categories THEN PEOPLE[1]
    ELSE "Both"

\* category_for_labeling with the operands of "or" exchanged
category_for_labeling_api_first(existing, api_bank_category) ==
    IF Falsy(api_bank_category) THEN existing.bank_category ELSE api_bank_category

\* existing['bank_category'] or api_bank_category
category_for_labeling(existing, api_bank_category) ==
    IF Falsy(existing.bank_category) THEN api_bank_category ELSE existing.bank_category

\* the body of the loop of categorize_and_label_transactions for one record;
\* existing is the record's entry of existing_data, or NoRow
categorize_one(existing, tx) ==
    LET api_bank_category == tx.bank_category
        label == IF existing = NoRow THEN auto_label_bank_category(api_bank_category)
                 ELSE IF existing.label # NULL THEN existing.label
                 ELSE auto_label_bank_category(
                          category_for_labeling(existing, api_bank_category))
        bank_category == IF existing = NoRow THEN api_bank_category
                         ELSE IF existing.bank_category # NULL /\ existing.bank_category # ""
                              THEN existing.bank_category
                         ELSE api_bank_category
    IN  [id |-> tx.id,
         date |-> tx.date,
         description |-> tx.description,
         amount |-> tx.amount,
         bank_category |-> bank_category,
         label |-> label]

categorize_and_label_transactions(existing, transactions) ==
    [k \in 1..Len(transactions) |->
        categorize_one(existing[transactions[k].id], transactions[k])]

\* the SELECT of categorize_and_label_transactions: every row of
\* shared_transactions_generalized
ReadExisting(gen) == gen

-----------------------------------------------------------------------------
(* Upsert statements.  row is the stored row with the record's id, EXCLUDED  *)
(* the row proposed for insertion.                                           *)

\* shared_bank_feed.insert_transactions: the parameter tuple
shared_values(tx) ==
    [id |-> tx.id, date |-> tx.date, description |-> tx.description,
     amount |-> tx.amount, bank_category |-> tx.bank_category, label |-> tx.label,
     has_split |-> SqlFalse, split_from_id |-> NULL]

\* shared_update_set with has_split taken from the incoming record
shared_update_set_overwrite(row, EXCLUDED) ==
    [id |-> row.id,
     date |-> EXCLUDED.date,
     description |-> EXCLUDED.description,
     amount |-> COALESCE(row.amount, EXCLUDED.amount),
     bank_category |-> COALESCE(NULLIF(row.bank_category, ""), EXCLUDED.bank_category),
     label |-> COALESCE(row.label, EXCLUDED.label),
     has_split |-> EXCLUDED.has_split,
     split_from_id |-> COALESCE(row.split_from_id, EXCLUDED.split_from_id)]

\* shared_bank_feed.insert_transactions: the SET list
shared_update_set(row, EXCLUDED) ==
    [id |-> row.id,
     date |-> EXCLUDED.date,
     description |-> EXCLUDED.description,
     amount |-> COALESCE(row.amount, EXCLUDED.amount),
     bank_category |-> COALESCE(NULLIF(row.bank_category, ""), EXCLUDED.bank_category),
     label |-> COALESCE(row.label, EXCLUDED.label),
     has_split |-> COALESCE(row.has_split, EXCLUDED.has_split),
     split_from_id |-> COALESCE(row.split_from_id, EXCLUDED.split_from_id)]

\* shared_where with the guard dropped
shared_where_true(row, EXCLUDED) == SqlTrue

\* shared_bank_feed.insert_transactions: the WHERE guard
shared_where(row, EXCLUDED) ==
    SqlOr({SqlNe(row.date, EXCLUDED.date),
           SqlNe(row.description, EXCLUDED.description)})

\* personal_bank_feed.insert_transactions: the parameter tuple
personal_values(tx) ==
    [id |-> tx.id, date |-> tx.date, description |-> tx.description,
     amount |-> tx.amount, category |-> NULL, closing_balance |-> tx.closing_balance,
     has_split |-> SqlFalse, split_from_id |-> NULL]

\* personal_bank_feed.insert_transactions: the SET list
personal_update_set(row, EXCLUDED) ==
    [id |-> row.id,
     date |-> EXCLUDED.date,
     description |-> EXCLUDED.description,
     closing_balance |-> EXCLUDED.closing_balance,
     amount |-> COALESCE(row.amount, EXCLUDED.amount),
     category |-> COALESCE(row.category, EXCLUDED.category),
     has_split |-> COALESCE(row.has_split, EXCLUDED.has_split),
     split_from_id |-> COALESCE(row.split_from_id, EXCLUDED.split_from_id)]

\* personal_where comparing closing_balance with != instead of IS DISTINCT FROM
personal_where_ne(row, EXCLUDED) ==
    SqlOr({SqlNe(row.date, EXCLUDED.date),
           SqlNe(row.description, EXCLUDED.description),
           SqlNe(row.closing_balance, EXCLUDED.closing_balance)})

\* personal_bank_feed.insert_transactions: the WHERE guard
personal_where(row, EXCLUDED) ==
    SqlOr({SqlNe(row.date, EXCLUDED.date),
           SqlNe(row.description, EXCLUDED.description),
           IsDistinctFrom(row.closing_balance, EXCLUDED.closing_balance)})

\* BaseBankFeed.insert_transactions: the values list, a missing key takes the
\* field's configured default (None when there is none)
base_values(config, tx) ==
    [f \in Range(config.transaction_fields) |->
        IF f \in DOMAIN tx THEN tx[f]
        ELSE IF f \in DOMAIN config.defaults THEN config.defaults[f] ELSE NULL]

\* BaseBankFeed.build_upsert_query: update_clauses
base_update_set(config, row, EXCLUDED) ==
    [f \in Range(config.transaction_fields) |->
        IF f \in Range(config.api_update_fields) THEN EXCLUDED[f]
        ELSE IF f \in Range(config.preserve_fields) THEN COALESCE(row[f], EXCLUDED[f])
        ELSE row[f]]

\* update_clauses keeping the stored value of every field that is not refreshed,
\* listed in preserve_fields or not
update_clauses_all_preserved(config) ==
    LET field_names == config.transaction_fields
        Refreshed(f) == f \in Range(field_names)
        Kept(f) == f \notin Range(config.api_update_fields)
        api == SelectSeq(config.api_update_fields, Refreshed)
        kept == SelectSeq(field_names, Kept)
    IN  [k \in 1..Len(api) |-> [column |-> api[k], value |-> "EXCLUDED"]]
        \o [k \in 1..Len(kept) |-> [column |-> kept[k], value |-> "COALESCE"]]

\* BaseBankFeed.build_upsert_query: the assignments of DO UPDATE SET, in the
\* order the two loops append them
update_clauses(config) ==
    LET field_names == config.transaction_fields
        Refreshed(f) == f \in Range(field_names)
        Kept(f) == /\ f \notin Range(config.api_update_fields)
                   /\ f \in Range(config.preserve_fields)
        api == SelectSeq(config.api_update_fields, Refreshed)
        kept == SelectSeq(field_names, Kept)
    IN  [k \in 1..Len(api) |-> [column |-> api[k], value |-> "EXCLUDED"]]
        \o [k \in 1..Len(kept) |-> [column |-> kept[k], value |-> "COALESCE"]]

\* base_where comparing every field with !=, nullable ones included
base_where_ne(config, row, EXCLUDED) ==
    LET fields == Range(config.api_update_fields) \cap Range(config.transaction_fields)
    IN  IF fields = {} THEN SqlTrue
        ELSE SqlOr({SqlNe(row[f], EXCLUDED[f]) : f \in fields})

\* BaseBankFeed.build_upsert_query: where_conditions
base_where(config, row, EXCLUDED) ==
    LET fields == Range(config.api_update_fields) \cap Range(config.transaction_fields)
        cond(f) == IF f = "closing_balance" THEN IsDistinctFrom(row[f], EXCLUDED[f])
                   ELSE SqlNe(row[f], EXCLUDED[f])
    IN  IF fields = {} THEN SqlTrue ELSE SqlOr({cond(f) : f \in fields})

Values(acct, tx) ==
    CASE acct = "shared" -> shared_values(tx)
      [] acct = "personal" -> personal_values(tx)
      [] OTHER -> base_values(ACCOUNT_CONFIGS.offset, tx)

UpdateSet(acct, row, EXCLUDED) ==
    CASE acct = "shared" -> shared_update_set(row, EXCLUDED)
      [] acct = "personal" -> personal_update_set(row, EXCLUDED)
      [] OTHER -> base_update_set(ACCOUNT_CONFIGS.offset, row, EXCLUDED)

WhereClause(acct, row, EXCLUDED) ==
    CASE acct = "shared" -> shared_where(row, EXCLUDED)
      [] acct = "personal" -> personal_where(row, EXCLUDED)
      [] OTHER -> base_where(ACCOUNT_CONFIGS.offset, row, EXCLUDED)

\* Upsert that applies the SET list whatever the WHERE guard says
UpsertIgnoringWhere(acct, row, tx) ==
    LET EXCLUDED == Values(acct, tx)
    IN  IF row = NoRow THEN [row |-> EXCLUDED, how |-> "inserted"]
        ELSE [row |-> UpdateSet(acct, row, EXCLUDED), how |-> "updated"]

\* cursor.execute(query, values) for one record:
\* INSERT ... ON CONFLICT (id) DO UPDATE SET ... WHERE ...
Upsert(acct, row, tx) ==
    LET EXCLUDED == Values(acct, tx)
    IN  IF row = NoRow THEN [row |-> EXCLUDED, how |-> "inserted"]
        ELSE IF WhereClause(acct, row, EXCLUDED) = SqlTrue
             THEN [row |-> UpdateSet(acct, row, EXCLUDED), how |-> "updated"]
        ELSE [row |-> row, how |-> "skipped"]

\* insert_transactions: the loop over the batch and the commit.  The result is
\* the committed table, the ids whose update passed its guard and the ids
\* inserted.
RECURSIVE insert_transactions(_, _, _)
insert_transactions(acct, tab, transactions) ==
    IF transactions = <<>> THEN [table |-> tab, fired |-> {}, inserted |-> {}]
    ELSE LET tx == Head(transactions)
             r == Upsert(acct, tab[tx.id], tx)
             rest == insert_transactions(acct, [tab EXCEPT ![tx.id] = r.row],
                                         Tail(transactions))
         IN  [table |-> rest.table,
              fired |-> rest.fired \cup (IF r.how = "updated" THEN {tx.id} ELSE {}),
              inserted |-> rest.inserted \cup (IF r.how = "inserted" THEN {tx.id} ELSE {})]

-----------------------------------------------------------------------------
(* Sync runs and out-of-band edits *)

NoRows == [i \in Ids |-> NoRow]

NoDuplicateIds(s) == \A j, k \in 1..Len(s) : j # k => s[j].id # s[k].id

\* What one call of fetch_transactions can return besides the empty list:
\* the API lists each transaction once.
Batches(acct) ==
    {s \in UNION {[1..n -> RawTransactions(acct)] : n \in 1..Cardinality(Ids)} :
        NoDuplicateIds(s)}

MapAll(acct, raws) == [k \in 1..Len(raws) |-> MapTransaction(acct, raws[k])]

\* Columns a user edits by hand, and what they may hold.
EditableValues(acct) ==
    LET all == [amount |-> Amounts,
                category |-> {NULL, "", "Food"},
                bank_category |-> {NULL, ""} \cup CategoryTitles,
                label |-> {NULL, "", PEOPLE[2]},
                has_split |-> {SqlTrue, SqlFalse},
                split_from_id |-> {NULL} \cup ParentIds]
    IN  [f \in DOMAIN all \cap Columns(acct) |-> all[f]]

GeneralizedRows == [label : {NULL, PEOPLE[2]}, bank_category : {NULL, "", "Fuel"}]

RecInit ==
    /\ account \in Accounts
    /\ table = NoRows
    /\ generalized = NoRows
    /\ lastFetched = <<>>
    /\ existing_data = NoRows
    /\ lastTx = <<>>
    /\ fired = {}
    /\ inserted = {}
    /\ lastAct = "init"
    /\ repeat = FALSE

FetchIdle ==
    /\ remote = <<>>
    /\ page = 1
    /\ all_transactions = <<>>
    /\ requested = <<>>
    /\ fstate = "idle"

PureIdle == calls = <<>>

Runs == {1, 2}

IdleRun == [script |-> "", pc |-> "idle", transactions |-> <<>>, txs |-> <<>>, k |-> 0,
            dead |-> {}, writes |-> {}, locks |-> {}, readFailed |-> FALSE, cause |-> ""]

DbIdle ==
    /\ db = {}
    /\ db0 = {}
    /\ runs = [r \in Runs |-> IdleRun]

Init == RecInit /\ FetchIdle /\ PureIdle /\ DbIdle

\* main() / BaseBankFeed.run() when the fetch returned records: the shared
\* feed categorizes them against what it reads from the generalized table,
\* then every feed upserts the batch and commits.
SyncRun(raws) ==
    LET transactions == MapAll(account, raws)
        existing == IF account = "shared" THEN ReadExisting(generalized)
                    ELSE NoRows
        txs == IF account = "shared"
               THEN categorize_and_label_transactions(existing, transactions)
               ELSE transactions
        result == insert_transactions(account, table, txs)
    IN  /\ table' = result.table
        /\ fired' = result.fired
        /\ inserted' = result.inserted
        /\ lastFetched' = transactions
        /\ existing_data' = existing
        /\ lastTx' = txs
        /\ repeat' = (lastAct = "run" /\ lastFetched = transactions)
        /\ lastAct' = "run"
        /\ UNCHANGED <<account, generalized>>
        /\ UNCHANGED <<fetchVars, pureVars, dbVars>>

\* main() / BaseBankFeed.run() when the fetch returned nothing: early return
SyncRunEmpty ==
    /\ lastFetched' = <<>>
    /\ existing_data' = NoRows
    /\ lastTx' = <<>>
    /\ fired' = {}
    /\ inserted' = {}
    /\ repeat' = FALSE
    /\ lastAct' = "run"
    /\ UNCHANGED <<account, table, generalized>>
    /\ UNCHANGED <<fetchVars, pureVars, dbVars>>

\* An out-of-band step ends the last run's history.
ForgetRun ==
    /\ lastFetched' = <<>>
    /\ existing_data' = NoRows
    /\ lastTx' = <<>>
    /\ fired' = {}
    /\ inserted' = {}
    /\ repeat' = FALSE
    /\ lastAct' = "edit"

\* A user edits one annotation of a stored row.
EditRow(i, f, v) ==
    /\ table[i] # NoRow
    /\ table[i][f] # v
    /\ table' = [table EXCEPT ![i][f] = v]
    /\ ForgetRun
    /\ UNCHANGED <<account, generalized>>
    /\ UNCHANGED <<fetchVars, pureVars, dbVars>>

\* The generalized table is maintained outside the feeds.
EditGeneralized(i, g) ==
    /\ account = "shared"
    /\ generalized[i] # g
    /\ generalized' = [generalized EXCEPT ![i] = g]
    /\ ForgetRun
    /\ UNCHANGED <<account, table>>
    /\ UNCHANGED <<fetchVars, pureVars, dbVars>>

Next ==
    \/ \E raws \in Batches(account) : SyncRun(raws)
    \/ SyncRunEmpty
    \/ \E i \in Ids : \E f \in DOMAIN EditableValues(account) :
          \E v \in EditableValues(account)[f] : EditRow(i, f, v)
    \/ \E i \in Ids, g \in GeneralizedRows : EditGeneralized(i, g)

Spec == Init /\ [][Next]_vars

-----------------------------------------------------------------------------
(* Paginated fetch *)

MaxPages == 3

\* Two API records, enough to tell the order of a page and of the pages apart.
FetchSamples(acct) ==
    {[id |-> "t1", date |-> "2024-01-01", payee |-> "Shell", amount |-> "-10.00",
      category |-> IF acct = "shared" THEN "Fuel" ELSE NULL,
      closing_balance |-> IF acct = "shared" THEN NULL ELSE "100.00"],
     [id |-> "t2", date |-> "2024-01-02", payee |-> "BP", amount |-> "-10.00",
      category |-> NULL, closing_balance |-> NULL]}

\* A page body lists a transaction at most once.
PageBodies(acct) ==
    {s \in UNION {[1..n -> FetchSamples(acct)] : n \in 0..Cardinality(FetchSamples(acct))} :
        NoDuplicateIds(s)}

\* What requests.get can do for one page: raise a RequestException, or answer
\* with a status code and (for 200) a JSON array.
Responses(acct) ==
    [raised : {FALSE}, status_code : {200}, json : PageBodies(acct)]
        \cup [raised : {FALSE}, status_code : {404, 500}, json : {<<>>}]
        \cup [raised : {TRUE}, status_code : {0}, json : {<<>>}]

EndsFetch(resp) == resp.raised \/ resp.status_code # 200 \/ resp.json = <<>>

\* AppendPage that puts the new page in front of the accumulated records
AppendPageInFront(acct, all, json) == MapAll(acct, json) \o all

\* all_transactions.append(...) for every record of the page, in order
AppendPage(acct, all, json) == all \o MapAll(acct, json)

\* script_fetch_page with "page += 1" inside the loop over the page's records
script_fetch_page_per_record(acct, pg, all, resp) ==
    IF resp.raised THEN [page |-> pg, all_transactions |-> all, fstate |-> "raised"]
    ELSE IF resp.status_code # 200
         THEN [page |-> pg, all_transactions |-> all, fstate |-> "returned"]
    ELSE IF resp.json = <<>>
         THEN [page |-> pg, all_transactions |-> all, fstate |-> "returned"]
    ELSE [page |-> pg + Len(resp.json),
          all_transactions |-> AppendPage(acct, all, resp.json),
          fstate |-> "loop"]

\* One iteration of the while loop of shared_bank_feed.fetch_transactions and
\* personal_bank_feed.fetch_transactions: requests.get is not guarded, so a
\* RequestException leaves the function.
script_fetch_page(acct, pg, all, resp) ==
    IF resp.raised THEN [page |-> pg, all_transactions |-> all, fstate |-> "raised"]
    ELSE IF resp.status_code # 200
         THEN [page |-> pg, all_transactions |-> all, fstate |-> "returned"]
    ELSE IF resp.json = <<>>
         THEN [page |-> pg, all_transactions |-> all, fstate |-> "returned"]
    ELSE [page |-> pg + 1, all_transactions |-> AppendPage(acct, all, resp.json),
          fstate |-> "loop"]

\* base_fetch_page whose "actual error" branch raises (raise_for_status)
\* instead of leaving the loop
base_fetch_page_raise(acct, pg, all, resp) ==
    IF resp.raised THEN [page |-> pg, all_transactions |-> all, fstate |-> "returned"]
    ELSE IF resp.status_code = 200
         THEN IF resp.json = <<>>
              THEN [page |-> pg, all_transactions |-> all, fstate |-> "returned"]
              ELSE [page |-> pg + 1,
                    all_transactions |-> AppendPage(acct, all, resp.json),
                    fstate |-> "loop"]
    ELSE IF resp.status_code = 404 /\ pg > 1
         THEN [page |-> pg, all_transactions |-> all, fstate |-> "returned"]
    ELSE [page |-> pg, all_transactions |-> all, fstate |-> "raised"]

\* One iteration of the while loop of BaseBankFeed.fetch_transactions
base_fetch_page(acct, pg, all, resp) ==
    IF resp.raised THEN [page |-> pg, all_transactions |-> all, fstate |-> "returned"]
    ELSE IF resp.status_code = 200
         THEN IF resp.json = <<>>
              THEN [page |-> pg, all_transactions |-> all, fstate |-> "returned"]
              ELSE [page |-> pg + 1,
                    all_transactions |-> AppendPage(acct, all, resp.json),
                    fstate |-> "loop"]
    ELSE IF resp.status_code = 404 /\ pg > 1
         THEN [page |-> pg, all_transactions |-> all, fstate |-> "returned"]
    ELSE [page |-> pg, all_transactions |-> all, fstate |-> "returned"]

fetch_page(acct, pg, all, resp) ==
    IF acct \in {"shared", "personal"} THEN script_fetch_page(acct, pg, all, resp)
    ELSE base_fetch_page(acct, pg, all, resp)

\* A call of fetch_transactions has just started.
FetchInit ==
    /\ RecInit
    /\ remote = <<>>
    /\ page = 1
    /\ all_transactions = <<>>
    /\ requested = <<>>
    /\ fstate = "loop"
    /\ PureIdle
    /\ DbIdle

\* One request and the handling of its response.  The API has finitely many
\* pages: past MaxPages it no longer answers with records.
FetchPage(resp) ==
    LET r == fetch_page(account, page, all_transactions, resp)
    IN  /\ fstate = "loop"
        /\ page <= MaxPages \/ EndsFetch(resp)
        /\ requested' = Append(requested, page)
        /\ remote' = Append(remote, resp)
        /\ page' = r.page
        /\ all_transactions' = r.all_transactions
        /\ fstate' = r.fstate
        /\ UNCHANGED recVars
        /\ UNCHANGED <<account, pureVars, dbVars>>

FetchNext == \E resp \in Responses(account) : FetchPage(resp)

SpecFetch == FetchInit /\ [][FetchNext]_vars

\* The loop is sequential code: while it is in the loop it makes its next
\* request, and the request is answered.
SpecFetchFair == SpecFetch /\ WF_vars(FetchNext)

-----------------------------------------------------------------------------
(* The pure functions, called on their own *)

\* bank categories passed to auto_label_bank_category: none, the empty string,
\* every listed category and two unlisted ones
LabelInputs ==
    {NULL, ""} \cup no_label_categories \cup psql_no_label_categories
        \cup first_person_categories \cup {"Groceries", "Rent"}

\* API records passed to a field mapper: every optional key present or missing
MapperInputs ==
    [id : Ids, date : Dates, payee : Payees, amount : ApiAmounts,
     category : CategoryTitles \cup {NULL}, closing_balance : Balances \cup {NULL}]

\* the call, after the previous call of the same function
Remember(call) ==
    IF calls # <<>> /\ calls[Len(calls)].fn = call.fn
    THEN <<calls[Len(calls)], call>>
    ELSE <<call>>

CallAutoLabel(c) ==
    /\ calls' = Remember([fn |-> "shared_bank_feed.auto_label_bank_category",
                          category |-> c, label |-> auto_label_bank_category(c)])
    /\ UNCHANGED <<account, recVars, fetchVars, dbVars>>

CallPsqlAutoLabel(c) ==
    /\ calls' = Remember([fn |-> "bank_feeds_psql.auto_label_bank_category",
                          category |-> c, label |-> psql_auto_label_bank_category(c)])
    /\ UNCHANGED <<account, recVars, fetchVars, dbVars>>

\* the account's fetch loop body, and the value list of the INSERT for the
\* parsed record when it is new
CallMapper(raw) ==
    LET parsed == MapTransaction(account, raw)
        tx == IF account = "shared" THEN categorize_one(NoRow, parsed) ELSE parsed
    IN  /\ calls' = Remember([fn |-> "mapper", raw |-> raw, parsed |-> parsed,
                              values |-> Values(account, tx)])
        /\ UNCHANGED <<account, recVars, fetchVars, dbVars>>

\* rows as a run inserted them
InsertedRows(acct) ==
    {Values(acct, IF acct = "shared"
                  THEN categorize_one(NoRow, MapTransaction(acct, raw))
                  ELSE MapTransaction(acct, raw)) : raw \in RawTransactions(acct)}

\* the WHERE guard of the account's upsert for a stored row and a fetched
\* record with the row's id
CallGuard(row, raw) ==
    LET EXCLUDED == Values(account,
                           IF account = "shared"
                           THEN categorize_one(NoRow, MapTransaction(account, raw))
                           ELSE MapTransaction(account, raw))
    IN  /\ row.id = raw.id
        /\ calls' = <<[fn |-> "guard", row |-> row, excluded |-> EXCLUDED,
                       result |-> WhereClause(account, row, EXCLUDED)]>>
        /\ UNCHANGED <<account, recVars, fetchVars, dbVars>>

\* a feed constructed with the named configuration builds its upsert
CallBuildUpsertQuery(name) ==
    LET config == ConfigOf(name)
    IN  /\ calls' = Remember([fn |-> "build_upsert_query", config |-> name,
                              field_names |-> config.transaction_fields,
                              api_update_fields |-> config.api_update_fields,
                              preserve_fields |-> config.preserve_fields,
                              update_clauses |-> update_clauses(config)])
        /\ UNCHANGED <<account, recVars, fetchVars, dbVars>>

PureNext ==
    \/ \E name \in ConfigNames : CallBuildUpsertQuery(name)
    \/ \E c \in LabelInputs : CallAutoLabel(c)
    \/ \E c \in LabelInputs : CallPsqlAutoLabel(c)
    \/ \E raw \in MapperInputs : CallMapper(raw)
    \/ \E row \in InsertedRows(account), raw \in RawTransactions(account) :
          CallGuard(row, raw)

SpecPure == Init /\ [][PureNext]_vars

-----------------------------------------------------------------------------
(* Runs, statement by statement.  The upserts of one run are one database    *)
(* transaction: psycopg2 opens it at the first execute and the code commits  *)
(* after the loop.  The server runs it READ COMMITTED: a statement sees the  *)
(* committed rows and the transaction's own writes; INSERT .. ON CONFLICT    *)
(* (id) DO UPDATE locks the row it inserts or conflicts with until the       *)
(* transaction ends, and a statement that needs a locked row waits.          *)

DbIds == {"t1", "t2"}

\* Three API records: two states of transaction t1 and one of t2.
DbSamples(acct) ==
    {[id |-> "t1", date |-> "2024-01-01", payee |-> "Shell", amount |-> "-10.00",
      category |-> IF acct = "shared" THEN "Fuel" ELSE NULL,
      closing_balance |-> IF acct = "shared" THEN NULL ELSE "100.00"],
     [id |-> "t1", date |-> "2024-01-02", payee |-> "Shell", amount |-> "-10.00",
      category |-> IF acct = "shared" THEN "Dining" ELSE NULL,
      closing_balance |-> IF acct = "shared" THEN NULL ELSE "200.00"],
     [id |-> "t2", date |-> "2024-01-01", payee |-> "BP", amount |-> "-10.00",
      category |-> NULL, closing_balance |-> NULL]}

DbBatches(acct) ==
    {b \in UNION {[1..n -> DbSamples(acct)] : n \in 0..Cardinality(DbIds)} :
        NoDuplicateIds(b)}

\* A row of t1 as an earlier run and a user's edits left it.
StoredRow(acct) ==
    LET raw == CHOOSE x \in DbSamples(acct) : x.id = "t1" /\ x.date = "2024-01-01"
        tx == IF acct = "shared" THEN categorize_one(NoRow, shared_parse(raw))
              ELSE MapTransaction(acct, raw)
    IN  [Values(acct, tx) EXCEPT !.amount = "-4.00", !.has_split = SqlTrue]

DbGeneralized(acct) ==
    IF acct = "shared"
    THEN {NoRows, [t1 |-> [label |-> NULL, bank_category |-> "Fuel"]]}
    ELSE {NoRows}

\* the scripts that write the account's table
Scripts(acct) == IF acct = "shared" THEN {"feed", "psql"} ELSE {"feed"}

\* existing_data as categorize_and_label_transactions builds it: the rows the
\* SELECT returned, or nothing when the SELECT raised (the except clause
\* prints and goes on)
existing_data_of(gen, ok) ==
    [i \in DbIds |-> IF ok /\ i \in DOMAIN gen THEN gen[i] ELSE NoRow]

\* bank_feeds_psql.categorize_and_label_transactions
psql_categorize_and_label_transactions(transactions) ==
    [k \in 1..Len(transactions) |->
        [id |-> transactions[k].id,
         date |-> transactions[k].date,
         description |-> transactions[k].description,
         amount |-> transactions[k].amount,
         bank_category |-> transactions[k].bank_category,
         label |-> psql_auto_label_bank_category(transactions[k].bank_category)]]

\* the row with the given id (id carries the unique index ON CONFLICT names)
RowWithId(rows, i) ==
    IF \E row \in rows : row.id = i THEN CHOOSE row \in rows : row.id = i ELSE NoRow

\* execute_upsert as a plain INSERT, without the ON CONFLICT clause
execute_insert(acct, rows, tx) == rows \cup {Values(acct, tx)}

\* cursor.execute of the feeds' statement on the rows the transaction sees
execute_upsert(acct, rows, tx) ==
    LET row == RowWithId(rows, tx.id)
    IN  (rows \ {row}) \cup {Upsert(acct, row, tx).row}

\* cursor.execute of bank_feeds_psql: INSERT .. ON CONFLICT (id) DO NOTHING;
\* the columns the statement does not name take the defaults
psql_execute_insert(rows, tx) ==
    IF RowWithId(rows, tx.id) # NoRow THEN rows
    ELSE rows \cup {[id |-> tx.id, date |-> tx.date, description |-> tx.description,
                     amount |-> tx.amount, bank_category |-> tx.bank_category,
                     label |-> tx.label,
                     has_split |-> ACCOUNT_CONFIGS.shared.defaults.has_split,
                     split_from_id |-> ACCOUNT_CONFIGS.shared.defaults.split_from_id]}

execute(script, acct, rows, tx) ==
    IF script = "psql" THEN psql_execute_insert(rows, tx)
    ELSE execute_upsert(acct, rows, tx)

\* on_error that commits what the transaction wrote so far (autocommit)
on_error_keep(committed, seen) == seen

\* the except clause of insert_transactions: conn.rollback() (scripts) or
\* leaving the "with connect()" block by an exception (base class)
on_error(committed, seen) == committed

Other(r) == 3 - r

\* the rows run r's transaction sees
View(r) == (db \ runs[r].dead) \cup runs[r].writes

NextId(r) == runs[r].txs[runs[r].k + 1].id

InLoop(r) == runs[r].pc = "upsert" /\ runs[r].k < Len(runs[r].txs)

\* the statement waits for a row lock the other run's transaction holds;
\* DO NOTHING waits only for an uncommitted insert of the same id
Blocked(r) ==
    /\ InLoop(r)
    /\ NextId(r) \in runs[Other(r)].locks
    /\ runs[r].script = "psql" =>
          /\ RowWithId(db, NextId(r)) = NoRow
          /\ RowWithId(runs[Other(r)].writes, NextId(r)) # NoRow

\* each run waits for a lock of the other: the server aborts one of them
Deadlocked == Blocked(1) /\ Blocked(2)

StatementInit ==
    /\ account \in Accounts
    /\ table = NoRows
    /\ generalized \in DbGeneralized(account)
    /\ lastFetched = <<>>
    /\ existing_data = NoRows
    /\ lastTx = <<>>
    /\ fired = {}
    /\ inserted = {}
    /\ lastAct = "init"
    /\ repeat = FALSE
    /\ FetchIdle
    /\ PureIdle
    /\ db0 \in {{}, {StoredRow(account)}}
    /\ db = db0
    /\ runs = [r \in Runs |-> IdleRun]

StatementFrame == UNCHANGED <<account, recVars, fetchVars, pureVars, db0>>

\* main(): fetch_transactions has returned; an empty batch ends the run
\* main() going on to the database whatever the fetch returned
main_after_fetch_unchecked(script, acct, transactions) ==
    IF script = "feed" /\ acct = "shared" THEN "categorize" ELSE "upsert"

\* main() / BaseBankFeed.run() once the fetch has returned: the feeds return
\* when there are no transactions; bank_feeds_psql goes on to
\* insert_transactions with the empty list
main_after_fetch(script, acct, transactions) ==
    IF script = "feed" /\ transactions = <<>> THEN "done"
    ELSE IF script = "feed" /\ acct = "shared" THEN "categorize"
    ELSE "upsert"

Start(r, script, raws) ==
    LET parsed == IF script = "psql" THEN MapAll("shared", raws)
                  ELSE MapAll(account, raws)
        direct == IF script = "psql" THEN psql_categorize_and_label_transactions(parsed)
                  ELSE parsed
    IN  /\ runs[r].pc = "idle"
        /\ r = 1 \/ runs[1].pc # "idle"
        /\ runs' = [runs EXCEPT ![r] =
              [@ EXCEPT !.script = script,
                        !.transactions = parsed,
                        !.txs = IF script = "feed" /\ account = "shared" THEN <<>>
                                ELSE direct,
                        !.pc = main_after_fetch(script, account, parsed)]]
        /\ UNCHANGED db
        /\ StatementFrame

\* categorize_and_label_transactions of the shared feed; ok = FALSE: the
\* connect or the SELECT raised
Categorize(r, ok) ==
    /\ runs[r].pc = "categorize"
    /\ runs' = [runs EXCEPT ![r] =
          [@ EXCEPT !.txs = categorize_and_label_transactions(
                                existing_data_of(ReadExisting(generalized), ok),
                                runs[r].transactions),
                    !.readFailed = ~ok,
                    !.pc = "upsert"]]
    /\ UNCHANGED db
    /\ StatementFrame

\* one cursor.execute of the loop of insert_transactions
Execute(r) ==
    LET tx == runs[r].txs[runs[r].k + 1]
        seen == View(r)
        after == execute(runs[r].script, account, seen, tx)
    IN  /\ InLoop(r)
        /\ ~Blocked(r)
        /\ runs' = [runs EXCEPT ![r] =
              [@ EXCEPT !.k = @ + 1,
                        !.dead = @ \cup ((seen \ after) \cap db),
                        !.writes = (@ \ (seen \ after)) \cup (after \ seen),
                        !.locks = IF runs[r].script = "psql" /\ after = seen THEN @
                                  ELSE @ \cup {tx.id}]]
        /\ UNCHANGED db
        /\ StatementFrame

\* connect, an execute or the commit raises: the feeds roll back and
\* re-raise, bank_feeds_psql prints and returns
Fail(r) ==
    /\ runs[r].pc = "upsert"
    /\ db' = on_error(db, View(r))
    /\ runs' = [runs EXCEPT ![r] =
          [@ EXCEPT !.pc = IF runs[r].script = "psql" THEN "done" ELSE "raised",
                    !.cause = IF Deadlocked THEN "deadlock" ELSE "error",
                    !.dead = {}, !.writes = {}, !.locks = {}]]
    /\ StatementFrame

\* conn.commit() after the loop
Commit(r) ==
    /\ runs[r].pc = "upsert"
    /\ runs[r].k = Len(runs[r].txs)
    /\ db' = View(r)
    /\ runs' = [runs EXCEPT ![r] =
          [@ EXCEPT !.pc = IF runs[r].script = "psql" THEN "done" ELSE "stats",
                    !.dead = {}, !.writes = {}, !.locks = {}]]
    /\ StatementFrame

\* the statistics query after the commit; ok = FALSE: it raised
Stats(r, ok) ==
    /\ runs[r].pc = "stats"
    /\ runs' = [runs EXCEPT ![r] =
          [@ EXCEPT !.pc = IF ok THEN "done" ELSE "raised",
                    !.cause = IF ok THEN @ ELSE "stats"]]
    /\ UNCHANGED db
    /\ StatementFrame

StatementNext ==
    \E r \in Runs :
        \/ \E script \in Scripts(account), raws \in DbBatches(account) :
              Start(r, script, raws)
        \/ \E ok \in BOOLEAN : Categorize(r, ok)
        \/ Execute(r)
        \/ Fail(r)
        \/ Commit(r)
        \/ \E ok \in BOOLEAN : Stats(r, ok)

SpecDb == StatementInit /\ [][StatementNext]_vars

-----------------------------------------------------------------------------
(* Reconciliation policy: the properties checked *)

PreserveIfPresent == {"amount", "category", "bank_category", "label", "has_split",
                      "split_from_id"}

AlwaysRefresh(acct) ==
    IF acct = "shared" THEN {"date", "description"}
    ELSE {"date", "description", "closing_balance"}

\* the record of the last run's batch with id i
TxOf(txs, i) == txs[CHOOSE k \in 1..Len(txs) : txs[k].id = i]

BatchIds(txs) == {txs[k].id : k \in 1..Len(txs)}

\* C1 as stated: a sync run never changes a stored non-null value of a
\* preserve-if-present field, whatever the fetch supplies.
C1_PreserveNonNull ==
    [][lastAct' = "run" =>
        \A i \in Ids : table[i] # NoRow =>
            \A f \in PreserveIfPresent \cap Columns(account) :
                table[i][f] # NULL => table'[i][f] = table[i][f]]_vars

\* C1 amended: a sync run never changes a stored preserve-if-present value
\* that is non-null and, for the shared account's bank_category, non-empty.
C1_PreserveNonNullNonEmpty ==
    [][lastAct' = "run" =>
        \A i \in Ids : table[i] # NoRow =>
            \A f \in PreserveIfPresent \cap Columns(account) :
                (/\ table[i][f] # NULL
                 /\ ~(account = "shared" /\ f = "bank_category" /\ table[i][f] = ""))
                    => table'[i][f] = table[i][f]]_vars

\* C1 witness: a run updated a row whose has_split was true and whose stored
\* amount differs from the fetched one; both survived.
C1_Witness ==
    /\ lastAct = "run"
    /\ \E i \in fired :
          /\ table[i].has_split = SqlTrue
          /\ table[i].split_from_id # NULL
          /\ table[i].amount # TxOf(lastTx, i).amount

\* C3: a run that repeats the previous run's fetched batch, with nothing
\* changed in between, leaves the table as it is and updates no row.
C3_Idempotent ==
    [][(lastAct = "run" /\ lastAct' = "run" /\ lastFetched # <<>>
            /\ lastFetched' = lastFetched)
        => (table' = table /\ fired' = {} /\ inserted' = {})]_vars

\* C3 witness: the second of two runs with the same non-empty batch has ended.
C3_Witness == repeat /\ lastFetched # <<>> /\ fired = {}

\* C5: after a run, every always-refresh field of a row that existed before
\* the run equals the fetched value, null included.
C5_AlwaysRefreshed ==
    lastAct = "run" =>
        \A i \in BatchIds(lastFetched) \ inserted :
            \A f \in AlwaysRefresh(account) : table[i][f] = TxOf(lastFetched, i)[f]

\* C5 witness: a run updated an existing row and its closing_balance is now
\* the fetched null.
C5_Witness ==
    /\ lastAct = "run"
    /\ account # "shared"
    /\ \E i \in fired :
          /\ table[i].closing_balance = NULL
          /\ TxOf(lastFetched, i).closing_balance = NULL

\* C7: when every always-refresh field of the incoming record equals the
\* stored one, the upsert leaves every field of the row unchanged.
C7_GuardFrame ==
    [][lastAct' = "run" =>
        \A i \in BatchIds(lastFetched') :
            (/\ table[i] # NoRow
             /\ \A f \in AlwaysRefresh(account) :
                    table[i][f] = TxOf(lastFetched', i)[f])
                => table'[i] = table[i]]_vars

\* C7 witness: a run skipped an existing row although the record it carried
\* had a bank_category for the row's missing one.
C7_Witness ==
    /\ lastAct = "run"
    /\ account = "shared"
    /\ \E i \in BatchIds(lastTx) \ (fired \cup inserted) :
          /\ table[i].bank_category = NULL
          /\ TxOf(lastTx, i).bank_category # NULL

\* the row a first insert of a fetched record is to create: the mapped values,
\* the label of a new shared record, and the configured defaults
NewRow(acct, fetched) ==
    CASE acct = "shared" ->
            [id |-> fetched.id, date |-> fetched.date,
             description |-> fetched.description, amount |-> fetched.amount,
             bank_category |-> fetched.bank_category,
             label |-> auto_label_bank_category(fetched.bank_category),
             has_split |-> SqlFalse, split_from_id |-> NULL]
      [] acct = "personal" ->
            [id |-> fetched.id, date |-> fetched.date,
             description |-> fetched.description, amount |-> fetched.amount,
             category |-> NULL, closing_balance |-> fetched.closing_balance,
             has_split |-> SqlFalse, split_from_id |-> NULL]
      [] OTHER ->
            [id |-> fetched.id, date |-> fetched.date,
             description |-> fetched.description, amount |-> fetched.amount,
             category |-> NULL, label |-> NULL,
             closing_balance |-> fetched.closing_balance,
             has_split |-> SqlFalse, split_from_id |-> NULL]

\* C2: the row a run creates for a fetched record without a stored row holds
\* the incoming mapped values and the defaults has_split = false,
\* split_from_id = null.
C2_FirstInsert ==
    lastAct = "run" =>
        \A i \in inserted : table[i] = NewRow(account, TxOf(lastFetched, i))

\* C6: a stored preserve-if-present field that is null takes the fetched
\* value when a run fetches a non-null one.
C6_NullTakesIncoming ==
    [][lastAct' = "run" =>
        \A i \in BatchIds(lastFetched') : table[i] # NoRow =>
            \A f \in PreserveIfPresent \cap DOMAIN TxOf(lastFetched', i) :
                (table[i][f] = NULL /\ TxOf(lastFetched', i)[f] # NULL)
                    => table'[i][f] = TxOf(lastFetched', i)[f]]_vars

\* the upsert with its WHERE guard removed
UpsertUnguarded(acct, row, tx) ==
    IF row = NoRow THEN Values(acct, tx) ELSE UpdateSet(acct, row, Values(acct, tx))

RECURSIVE InsertUnguarded(_, _, _)
InsertUnguarded(acct, tab, transactions) ==
    IF transactions = <<>> THEN tab
    ELSE LET tx == Head(transactions)
         IN  InsertUnguarded(acct,
                             [tab EXCEPT ![tx.id] = UpsertUnguarded(acct, tab[tx.id], tx)],
                             Tail(transactions))

\* C8: the guarded upsert leaves the table as the same upsert without the
\* guard would.
C8_GuardIsOptimization ==
    [][lastAct' = "run" => table' = InsertUnguarded(account, table, lastTx')]_vars

\* C9: for a record whose existing row has no label, the label is computed
\* from the existing bank_category when that is present and from the fetched
\* one otherwise; existing "Fuel" wins over fetched "Dining".
C9_LabelPrecedence ==
    (account = "shared" /\ lastAct = "run") =>
        \A k \in 1..Len(lastFetched) :
            LET existing == existing_data[lastFetched[k].id]
                fetched == lastFetched[k].bank_category
            IN  (existing # NoRow /\ existing.label = NULL) =>
                    /\ existing.bank_category \notin {NULL, ""} =>
                          lastTx[k].label =
                              auto_label_bank_category(existing.bank_category)
                    /\ existing.bank_category \in {NULL, ""} =>
                          lastTx[k].label = auto_label_bank_category(fetched)
                    /\ (existing.bank_category = "Fuel" /\ fetched = "Dining") =>
                          lastTx[k].label = PEOPLE[1]

\* C9 witness: a run labelled a record with existing "Fuel" and fetched "Dining".
C9_Witness ==
    /\ account = "shared"
    /\ lastAct = "run"
    /\ \E k \in 1..Len(lastFetched) :
          LET existing == existing_data[lastFetched[k].id]
          IN  /\ existing # NoRow
              /\ existing.label = NULL
              /\ existing.bank_category = "Fuel"
              /\ lastFetched[k].bank_category = "Dining"
              /\ lastTx[k].label = PEOPLE[1]

\* C10: the label the shared sync computes for a record without an existing
\* label is null, and no run writes a non-null label into a row.
C10_AutoLabelDisabled ==
    (account = "shared" /\ lastAct = "run") =>
        /\ \A k \in 1..Len(lastFetched) :
              LET existing == existing_data[lastFetched[k].id]
              IN  (existing = NoRow \/ existing.label = NULL) => lastTx[k].label = NULL
        /\ \A i \in inserted : table[i].label = NULL

TextFields == {"category", "bank_category", "label"}

\* C18: when a run updates a row whose stored category, bank_category or
\* label is the empty string, the field takes the incoming value.
C18_EmptyTakesIncoming ==
    [][lastAct' = "run" =>
        \A i \in fired' :
            \A f \in TextFields \cap Columns(account) :
                table[i][f] = "" =>
                    table'[i][f] = Values(account, TxOf(lastTx', i))[f]]_vars

-----------------------------------------------------------------------------
(* Pagination: the properties checked *)

\* the records of the first n answers, mapped, in page order
RECURSIVE RecordsOfPages(_, _, _)
RecordsOfPages(acct, answers, n) ==
    IF n = 0 THEN <<>>
    ELSE RecordsOfPages(acct, answers, n - 1) \o MapAll(acct, answers[n].json)

IsPage(resp) == ~resp.raised /\ resp.status_code = 200

\* the remote answered pages 1..K-1 with records and page K with an empty list
EndsWithEmptyPage(answers) ==
    /\ answers # <<>>
    /\ IsPage(answers[Len(answers)]) /\ answers[Len(answers)].json = <<>>
    /\ \A p \in 1..(Len(answers) - 1) : IsPage(answers[p]) /\ answers[p].json # <<>>

\* C4: when pages 1..K-1 hold records and page K is empty, the fetch returns
\* exactly the records of pages 1..K-1 in order and has requested pages 1..K
\* and no other.
C4_PaginationConcat ==
    EndsWithEmptyPage(remote) =>
        /\ fstate = "returned"
        /\ all_transactions = RecordsOfPages(account, remote, Len(remote) - 1)
        /\ requested = [p \in 1..Len(remote) |-> p]

\* C4 witness: a fetch returned after two pages of two and one records and an
\* empty third page.
C4_Witness ==
    /\ fstate = "returned"
    /\ EndsWithEmptyPage(remote)
    /\ Len(remote) = 3
    /\ Len(remote[1].json) = 2
    /\ Len(remote[2].json) = 1
    /\ Len(all_transactions) = 3
    /\ all_transactions[3].id = remote[2].json[1].id

\* the remote answered pages 1..N-1 with records; answers[N] is the last answer
RecordsThenLast(answers) ==
    /\ answers # <<>>
    /\ \A p \in 1..(Len(answers) - 1) : IsPage(answers[p]) /\ answers[p].json # <<>>

\* the fetch has returned the records of every answer but the last, in order,
\* after requesting each page once
ReturnedAllButLast ==
    /\ fstate = "returned"
    /\ all_transactions = RecordsOfPages(account, remote, Len(remote) - 1)
    /\ requested = [p \in 1..Len(remote) |-> p]

\* C12: when the request for page N fails in transport, the fetch of every
\* account returns the records accumulated from pages 1..N-1.
C12_NetworkFailureReturns ==
    (RecordsThenLast(remote) /\ remote[Len(remote)].raised) => ReturnedAllButLast

\* C13: when page N answers with a non-success status, the fetch raises
\* nothing, requests no further page and returns exactly the records of
\* pages 1..N-1 in order.
C13_StatusEndsFetch ==
    (/\ RecordsThenLast(remote)
     /\ ~remote[Len(remote)].raised
     /\ remote[Len(remote)].status_code # 200) => ReturnedAllButLast

\* C13 witness: the configured feed got status 500 for page 3 after two pages
\* of records and returned their three records.
C13_Witness ==
    /\ account = "offset"
    /\ Len(remote) = 3
    /\ RecordsThenLast(remote)
    /\ ~remote[3].raised /\ remote[3].status_code = 500
    /\ fstate = "returned"
    /\ Len(all_transactions) = 3
    /\ requested = <<1, 2, 3>>

\* C21: the fetch requests page 1 first and then pages 2, 3, .. in order,
\* one request per step; the page counter advances by exactly one, and only
\* after a 200 answer with records; since the remote at some page answers
\* with an empty list, another status or a transport failure, the loop ends,
\* with finitely many records.
C21_FetchOrderTerminates ==
    /\ [](requested = [p \in 1..Len(requested) |-> p])
    /\ [][/\ Len(requested') = Len(requested) + 1
          /\ requested'[Len(requested')] = page
          /\ page' = IF IsPage(remote'[Len(remote')]) /\ remote'[Len(remote')].json # <<>>
                     THEN page + 1 ELSE page
          /\ page' # page => fstate' = "loop"]_vars
    /\ <>(fstate # "loop" /\ Len(all_transactions) <= 2 * MaxPages)

\* C21 witness: a fetch has requested pages 1, 2, 3 and ended at the third.
C21_Witness ==
    /\ fstate = "returned"
    /\ requested = <<1, 2, 3>>
    /\ page = 3
    /\ Len(all_transactions) = 4

-----------------------------------------------------------------------------
(* Pure functions: the properties checked *)

IsLabelCall(c) == c.fn \in {"shared_bank_feed.auto_label_bank_category",
                            "bank_feeds_psql.auto_label_bank_category"}

NoLabelSetOf(c) ==
    IF c.fn = "shared_bank_feed.auto_label_bank_category" THEN no_label_categories
    ELSE psql_no_label_categories

-----------------------------------------------------------------------------
(* Runs against the database: the properties checked *)

\* C14: when an execute (or the commit) of a feed's batch raises, the run
\* re-raises and commits nothing: the step leaves the table unchanged and
\* discards the upserts already executed; with no other run about, the table
\* is the one from before the run.
C14_BatchAtomic ==
    [][/\ \A r \in Runs :
            (/\ runs[r].script = "feed"
             /\ runs[r].pc = "upsert"
             /\ runs'[r].pc \notin {"upsert", "stats"})
                => (/\ runs'[r].pc = "raised"
                    /\ db' = db
                    /\ runs'[r].writes = {} /\ runs'[r].dead = {})
       /\ (/\ runs'[2].pc = "idle"
           /\ runs'[1].pc = "raised"
           /\ runs'[1].cause # "stats") => db' = db0']_vars

\* C14 witness: the second execute of a batch of two raised after the first
\* had inserted or updated a row; the table is still the one before the run.
C14_Witness ==
    /\ runs[2].pc = "idle"
    /\ runs[1].script = "feed"
    /\ runs[1].pc = "raised"
    /\ runs[1].cause = "error"
    /\ runs[1].k = 1
    /\ Len(runs[1].txs) = 2
    /\ execute_upsert(account, db0, runs[1].txs[1]) # db0
    /\ db = db0

\* C15: a run whose read of the existing rows raised has ended by raising
\* and has executed no upsert.
C15_ReadErrorAborts ==
    \A r \in Runs : runs[r].readFailed => (runs[r].pc = "raised" /\ runs[r].k = 0)

UniqueIds(rows) == \A r1, r2 \in rows : r1.id = r2.id => r1 = r2

\* C16: no step removes an id from the table, and the table never holds two
\* rows with one id.
C16_NeverDeletedUnique ==
    [][/\ \A row \in db : RowWithId(db', row.id) # NoRow
       /\ UniqueIds(db')]_vars

\* C16 witness: a run has committed an update of the stored row of t1 and an
\* insert of t2; the table holds one row for each.
C16_Witness ==
    /\ db0 # {}
    /\ Cardinality(db) = 2
    /\ RowWithId(db, "t1") \notin db0
    /\ RowWithId(db, "t2") # NoRow

\* a batch applied to a table, statement after statement
RECURSIVE ApplyBatch(_, _, _)
ApplyBatch(acct, rows, txs) ==
    IF txs = <<>> THEN rows
    ELSE ApplyBatch(acct, execute_upsert(acct, rows, Head(txs)), Tail(txs))

\* the records run r upserts when its read succeeds
AloneTxs(r) ==
    IF account = "shared"
    THEN categorize_and_label_transactions(
             existing_data_of(ReadExisting(generalized), TRUE), runs[r].transactions)
    ELSE runs[r].transactions

\* the table after run `first` and then run `second`, one after the other
SerialOrder(first, second) ==
    ApplyBatch(account, ApplyBatch(account, db0, AloneTxs(first)), AloneTxs(second))

\* two runs of the shared feed have ended; v was aborted as the victim of a
\* deadlock between the two, nothing else went wrong
EndedWithVictim(v) ==
    /\ account = "shared"
    /\ \A r \in Runs : /\ runs[r].script = "feed"
                       /\ runs[r].pc \in {"done", "raised"}
                       /\ ~runs[r].readFailed
    /\ runs[v].pc = "raised" /\ runs[v].cause = "deadlock"
    /\ runs[Other(v)].pc = "done" /\ runs[Other(v)].cause = ""

\* both runs fetched transaction i, with different dates and different
\* categories
FetchedDifferently(i) ==
    \E j, k \in 1..Cardinality(DbIds) :
        /\ j <= Len(runs[1].transactions) /\ k <= Len(runs[2].transactions)
        /\ runs[1].transactions[j].id = i /\ runs[2].transactions[k].id = i
        /\ runs[1].transactions[j].date # runs[2].transactions[k].date
        /\ runs[1].transactions[j].bank_category # runs[2].transactions[k].bank_category

\* C17: two overlapping runs of the shared feed that upsert the same two ids
\* in opposite order block each other; the run the server aborts loses its
\* whole batch, and the table is then the one the other run alone leaves.
\* When the table was empty and the two runs fetched a transaction with
\* different dates and categories, that table is the result of neither
\* serial order of the two runs.
C17_ConcurrentRunsUnsafe ==
    \A v \in Runs : EndedWithVictim(v) =>
        /\ db = ApplyBatch(account, db0, AloneTxs(Other(v)))
        /\ (db0 = {} /\ generalized = NoRows /\ \E i \in DbIds : FetchedDifferently(i))
              => db \notin {SerialOrder(1, 2), SerialOrder(2, 1)}

\* C17 witness: two runs on the empty shared table have ended, one aborted
\* by the deadlock, and the table differs from both serial orders.
C17_Witness ==
    /\ \E v \in Runs : EndedWithVictim(v)
    /\ db0 = {}
    /\ \E i \in DbIds : FetchedDifferently(i)
    /\ db \notin {SerialOrder(1, 2), SerialOrder(2, 1)}

-----------------------------------------------------------------------------
(* Field mappers and the change guard: the properties checked *)

\* C19: the mapper copies id, date and amount, maps payee to description,
\* and gives every optional field the record lacks null (false for
\* has_split): no category yields a null bank_category, no closing_balance
\* a null closing_balance; two calls with one record agree.
C19_FieldMapper ==
    /\ \A k \in 1..Len(calls) :
          LET c == calls[k]
          IN  c.fn = "mapper" =>
                /\ c.parsed.id = c.raw.id
                /\ c.parsed.date = c.raw.date
                /\ c.parsed.description = c.raw.payee
                /\ c.parsed.amount = c.raw.amount
                /\ "bank_category" \in DOMAIN c.values =>
                      c.values.bank_category = c.raw.category
                /\ "closing_balance" \in DOMAIN c.values =>
                      c.values.closing_balance = c.raw.closing_balance
                /\ "category" \in DOMAIN c.values => c.values.category = NULL
                /\ c.values.has_split = SqlFalse
                /\ c.values.split_from_id = NULL
    /\ \A j, k \in 1..Len(calls) :
          (calls[j].fn = "mapper" /\ calls[k].fn = "mapper" /\ calls[j].raw = calls[k].raw)
            => calls[j].parsed = calls[k].parsed

\* C20: for a stored row and a fetched record with the same date and
\* description, the guard is true exactly when closing_balance differs,
\* null counting as a value: null against a balance, a balance against null
\* and two balances give true, null against null gives false.
C20_GuardNullAware ==
    \A k \in 1..Len(calls) :
        LET c == calls[k]
        IN  (/\ c.fn = "guard"
             /\ "closing_balance" \in DOMAIN c.row
             /\ c.row.date = c.excluded.date
             /\ c.row.description = c.excluded.description)
              => /\ c.result \in {SqlTrue, SqlFalse}
                 /\ c.result = SqlTrue <=>
                       c.row.closing_balance # c.excluded.closing_balance
                 /\ (c.row.closing_balance = NULL /\ c.excluded.closing_balance = NULL)
                       => c.result = SqlFalse

\* C20 witness: the configured feed's guard was true for a stored null
\* closing_balance and a fetched balance, date and description unchanged.
C20_Witness ==
    \E k \in 1..Len(calls) :
        LET c == calls[k]
        IN  /\ c.fn = "guard"
            /\ account = "offset"
            /\ c.row.date = c.excluded.date
            /\ c.row.description = c.excluded.description
            /\ c.row.closing_balance = NULL
            /\ c.excluded.closing_balance # NULL
            /\ c.result = SqlTrue

-----------------------------------------------------------------------------
(* Field classification *)

IsBuildCall(c) == c.fn = "build_upsert_query"

\* how many of the two policy lists name the field
PolicyCount(c, f) ==
    (IF f \in Range(c.api_update_fields) THEN 1 ELSE 0)
        + (IF f \in Range(c.preserve_fields) THEN 1 ELSE 0)

\* how many assignments of the SET list have the column on their left
AssignCount(c, f) ==
    Cardinality({k \in 1..Len(c.update_clauses) : c.update_clauses[k].column = f})

\* C22, as stated: in every field table each field of transaction_fields is in
\* exactly one of api_update_fields and preserve_fields, and the generated
\* upsert assigns each column at most once.
C22_EveryFieldOnePolicy ==
    \A i \in 1..Len(calls) :
        IsBuildCall(calls[i]) =>
            \A f \in Range(calls[i].field_names) :
                /\ PolicyCount(calls[i], f) = 1
                /\ AssignCount(calls[i], f) <= 1

\* C22, amended: in every field table each field of transaction_fields other
\* than the primary key id is in exactly one of api_update_fields and
\* preserve_fields and the generated upsert assigns it exactly once, from
\* EXCLUDED when it is refreshed and through COALESCE when it is preserved;
\* id is in neither list and the upsert never assigns it.
C22_NonKeyFieldOnePolicy ==
    \A i \in 1..Len(calls) :
        IsBuildCall(calls[i]) =>
            /\ \A f \in Range(calls[i].field_names) \ {"id"} :
                  /\ PolicyCount(calls[i], f) = 1
                  /\ AssignCount(calls[i], f) = 1
                  /\ \A k \in 1..Len(calls[i].update_clauses) :
                        calls[i].update_clauses[k].column = f =>
                            calls[i].update_clauses[k].value
                                = IF f \in Range(calls[i].api_update_fields)
                                  THEN "EXCLUDED" ELSE "COALESCE"
            /\ PolicyCount(calls[i], "id") = 0
            /\ AssignCount(calls[i], "id") = 0
            /\ \A k \in 1..Len(calls[i].update_clauses) :
                  calls[i].update_clauses[k].column \in Range(calls[i].field_names)

C22_Witness ==
    /\ Len(calls) = 2
    /\ IsBuildCall(calls[1]) /\ calls[1].config = "savings"
    /\ IsBuildCall(calls[2]) /\ calls[2].config = "shared"
    /\ Len(calls[1].update_clauses) = 8
    /\ Len(calls[2].update_clauses) = 7

-----------------------------------------------------------------------------
(* Raising from insert_transactions *)

\* C23: whenever a feed's run, the only one about, has ended by raising from
\* insert_transactions (an upsert, the commit or the summary-count query
\* after the commit raised), the account table equals its state before the
\* run.
C23_RaiseRestoresTable ==
    (/\ runs[2].pc = "idle"
     /\ runs[1].script = "feed"
     /\ runs[1].pc = "raised"
     /\ ~runs[1].readFailed) => db = db0

-----------------------------------------------------------------------------
(* The table the shared feed reads and the table it writes *)

\* the two columns the reconciliation consults, of a row or of no row
Consulted(row) ==
    IF row = NoRow THEN NoRow
    ELSE [label |-> row.label, bank_category |-> row.bank_category]

\* C24: in a shared run the existing label and bank_category consulted for
\* the record with id X are those that the row X of the table the upsert
\* writes held when the run began (none when that table has no row X).
C24_ReadsTheWrittenRow ==
    [][(account = "shared" /\ lastAct' = "run") =>
          \A i \in BatchIds(lastFetched') :
              Consulted(existing_data'[i]) = Consulted(table[i])]_vars

-----------------------------------------------------------------------------
(* The empty fetch and the completed run *)

\* C25: a feed's run whose fetch returned no records ends at once, having
\* opened no database connection (it neither reads the existing rows nor
\* enters insert_transactions) and leaving the table unchanged, and stays
\* ended; a run whose fetch returned records goes on to the database, and
\* once it has completed without error every fetched id has a row in the
\* table.
C25_EmptyFetchNoDatabase ==
    /\ [][\A r \in Runs :
            /\ (/\ runs[r].pc = "idle"
                /\ runs'[r].pc # "idle"
                /\ runs'[r].script = "feed") =>
                    IF runs'[r].transactions = <<>>
                    THEN /\ runs'[r].pc = "done"
                         /\ db' = db
                         /\ runs'[r].k = 0
                         /\ runs'[r].locks = {} /\ runs'[r].writes = {}
                    ELSE runs'[r].pc \in {"categorize", "upsert"}
            /\ runs[r].pc = "done" => runs'[r] = runs[r]]_vars
    /\ [](\A r \in Runs :
            (/\ runs[r].script = "feed"
             /\ runs[r].pc = "done"
             /\ runs[r].cause = "") =>
                \A i \in BatchIds(runs[r].transactions) : RowWithId(db, i) # NoRow)

\* C25 witness: the first run fetched nothing and ended with the table as it
\* was; the second fetched two records, completed, and both ids have rows.
C25_Witness ==
    /\ runs[1].script = "feed" /\ runs[1].pc = "done"
    /\ runs[1].transactions = <<>>
    /\ runs[2].script = "feed" /\ runs[2].pc = "done" /\ runs[2].cause = ""
    /\ Len(runs[2].transactions) = 2
    /\ db0 = {}
    /\ Cardinality(db) = 2
    /\ \A i \in BatchIds(runs[2].transactions) : RowWithId(db, i) # NoRow

====
